---- MODULE Spec2Model ----
(***************************************************************************)
(* Character render system of midgarts                                     *)
(* (src/internal/system/character_render_system.go).                       *)
(*                                                                         *)
(* The system owns a registry of characters and a per-tick sequence of     *)
(* sprite render commands.  Update clears the sequence and renders every   *)
(* registered character: per attachment (Shadow, Shield, Body, Head) it    *)
(* resolves an action from the attachment's action table, selects a frame  *)
(* from the wall clock, and emits one command per drawable layer, chaining *)
(* the frame anchors through an offset accumulator.                        *)
(*                                                                         *)
(* Numbers are Go int64 values; the model keeps them far below 2^31, so no *)
(* operation of the model wraps.  Go's / and % truncate toward zero and    *)
(* are modelled by GoDiv and GoMod.  Slices are 0-based in Go and 1-based  *)
(* here: a Go index i reads element i + 1.                                 *)
(***************************************************************************)
EXTENDS Integers, Sequences, FiniteSets, TLC

VARIABLES
    directionTable, \* directiontype.DirectionTable
    now,         \* the wall clock read by time.Since, in milliseconds
    characters,  \* s.characters: entity id -> character
    sprite,      \* s.RenderCommands.sprite
    status,      \* "running", "fatal: ..." (log.Fatal) or "panic" (runtime panic)
    rendered,    \* history: the ids registered when Update last ran
    departed,    \* history: the ids removed and not registered again
    lastOp       \* history: the last call and its inputs

vars == <<directionTable, now, characters, sprite, status, rendered, departed, lastOp>>

-----------------------------------------------------------------------------
(* Bounds of the model *)

MaxClockSteps == 1
ClockStep == 100

EntityIds == {1, 2}
DeltaTimes == {0, 50, 150}
CameraEntries == {0, 6}

-----------------------------------------------------------------------------
(* Program constants *)

SpriteScaleFactor == 100
FixedCameraDirection == 6
FrameTimeFloor == 100
NanosPerMilli == 1000000

\* actionindex.* : action kinds, each the first of eight direction slots
Idle == 0
Sitting == 16
StandBy == 32
Dead == 64
ActionKinds == {Idle, Sitting, StandBy, Dead}

\* actionplaymode.*
Repeat == "Repeat"
PlayOnce == "PlayOnce"
PlayModes == {Repeat, PlayOnce}

\* character.Attachment*
AttachmentShadow == "Shadow"
AttachmentShield == "Shield"
AttachmentBody == "Body"
AttachmentHead == "Head"

Directions == 0 .. 7

-----------------------------------------------------------------------------
(* Go integer arithmetic (divisors are positive wherever the code divides) *)

GoDiv(a, b) == IF a >= 0 THEN a \div b ELSE -((-a) \div b)

GoMod(a, b) == a - b * GoDiv(a, b)

GoMax(a, b) == IF a >= b THEN a ELSE b

\* a slice read s[i] panics unless 0 <= i < len(s)
IndexInRange(i, n) == 0 <= i /\ i < n

-----------------------------------------------------------------------------
(* Decoded assets: act.Action / act.ActionFrame / act.ActionFrameLayer      *)

Layer(sfi, x, y) == [SpriteFrameIndex |-> sfi, Position |-> <<x, y>>]

Frame(layers, positions) == [Layers |-> layers, Positions |-> positions]

Action(frames, delay, duration) ==
    [Frames |-> frames, Delay |-> delay, DurationMilliseconds |-> duration]

ShadowActions ==
    << Action(<< Frame(<< Layer(0, 0, 0) >>, << >>) >>, 150, 150) >>

BodyActions ==
    << \* one frame, anchored at (10, 5)
       Action(<< Frame(<< Layer(0, 0, -20) >>, << <<10, 5>> >>) >>, 150, 150),
       \* two frames, a Delay below the floor
       Action(<< Frame(<< Layer(1, 1, -20) >>, << <<10, 5>> >>),
                 Frame(<< Layer(2, -1, -21) >>, << <<8, 4>> >>) >>, 50, 50),
       \* three frames: the "doridori" animation
       Action(<< Frame(<< Layer(3, 0, -20) >>, << <<10, 5>> >>),
                 Frame(<< Layer(4, 2, -20) >>, << <<9, 5>> >>),
                 Frame(<< Layer(5, -2, -20) >>, << <<11, 5>> >>) >>, 150, 150),
       \* an invisible frame
       Action(<< Frame(<< >>, << >>) >>, 150, 150),
       \* a frame whose only layer is not drawn, then a drawn one
       Action(<< Frame(<< Layer(-1, 0, 0) >>, << <<10, 5>> >>),
                 Frame(<< Layer(6, 0, -22), Layer(7, 3, -22) >>, << <<10, 5>> >>) >>,
              300, 600) >>

HeadActions ==
    << \* no anchor of its own
       Action(<< Frame(<< Layer(0, 0, -40) >>, << >>) >>, 150, 150),
       \* anchored at (3, 2)
       Action(<< Frame(<< Layer(1, 1, -40) >>, << <<3, 2>> >>) >>, 150, 150),
       Action(<< Frame(<< Layer(2, 0, -41), Layer(-1, 0, 0) >>, << <<3, 2>> >>),
                 Frame(<< Layer(3, 0, -42) >>, << >>) >>, 200, 400) >>

ShieldActions ==
    << Action(<< Frame(<< Layer(0, -5, -10) >>, << <<1, 1>> >>) >>, 150, 150),
       \* an invisible frame, then a drawn one
       Action(<< Frame(<< >>, << >>),
                 Frame(<< Layer(2, -7, -10) >>, << <<2, 1>> >>) >>, 120, 240) >>

-----------------------------------------------------------------------------
(* Asset source: component.NewCharacterAttachmentComponent binds the four   *)
(* attachments from the gender / job sprite / head / shield selector, or    *)
(* fails when the archive has no such asset.                                *)

KnownJobs == {"novice"}
KnownHeads == {"head1"}
KnownShields == {"guard", "buckler"}

AssetFound(c) ==
    /\ c.JobSpriteID \in KnownJobs
    /\ c.HeadIndex \in KnownHeads
    /\ (c.HasShield => c.ShieldSpriteName \in KnownShields)

\* char.Files[elem].ACT.Actions of a bound character
Actions(c, elem) ==
    CASE elem = AttachmentShadow -> ShadowActions
      [] elem = AttachmentBody   -> BodyActions
      [] elem = AttachmentHead   -> HeadActions
      [] elem = AttachmentShield ->
            IF c.HasShield /\ c.ShieldSpriteName = "guard"
            THEN ShieldActions ELSE << >>

-----------------------------------------------------------------------------
(* renderCharacter: direction and draw order                                *)

\* directiontype.DirectionTable[FixedCameraDirection]
camera == directionTable[FixedCameraDirection + 1]

\* line 88: the % binds to the table entry alone, the sum is not reduced
RenderDirection(c) == c.Direction + GoMod(camera, 8)

\* faulty variant: the sum reduced mod 8 before the comparison
BehindReduced(c) ==
    GoMod(c.Direction + camera, 8) > 1 /\ GoMod(c.Direction + camera, 8) < 6

Behind(c) == RenderDirection(c) > 1 /\ RenderDirection(c) < 6

RenderShield(c) == c.HasShield /\ c.ActionIndex = StandBy

\* faulty variant: the Shield always drawn last
DrawOrderShieldLast(c) ==
    (IF c.ActionIndex # Dead /\ c.ActionIndex # Sitting
        THEN << AttachmentShadow >> ELSE << >>)
    \o << AttachmentBody, AttachmentHead >>
    \o (IF RenderShield(c) THEN << AttachmentShield >> ELSE << >>)

DrawOrder(c) ==
    (IF c.ActionIndex # Dead /\ c.ActionIndex # Sitting
        THEN << AttachmentShadow >> ELSE << >>)
    \o (IF Behind(c) /\ RenderShield(c) THEN << AttachmentShield >> ELSE << >>)
    \o << AttachmentBody, AttachmentHead >>
    \o (IF ~Behind(c) /\ RenderShield(c) THEN << AttachmentShield >> ELSE << >>)

-----------------------------------------------------------------------------
(* renderAttachment: action and frame selection                             *)

\* faulty variant: the resolved index not wrapped to the table
ActionIdxUnwrapped(c, n) ==
    c.ActionIndex + GoMod(c.Direction + camera, 8)

\* line 120
ActionIdx(c, n) ==
    GoMod(c.ActionIndex + GoMod(c.Direction + camera, 8), n)

SelectedAction(c, elem) ==
    Actions(c, elem)[ActionIdx(c, Len(Actions(c, elem))) + 1]

\* faulty variant: no floor
TimeNeededUnfloored(c, action) ==
    IF c.ForcedDuration # 0
    THEN GoDiv(c.ForcedDuration, Len(action.Frames))
    ELSE GoDiv(action.Delay * c.FPSMultiplier[2], c.FPSMultiplier[1])

\* lines 123-129; FPSMultiplier is the fraction <<numerator, denominator>>
TimeNeededForOneFrame(c, action) ==
    LET frameCount == Len(action.Frames)
        byDelay == GoDiv(action.Delay * c.FPSMultiplier[2], c.FPSMultiplier[1])
        t == IF c.ForcedDuration # 0
                THEN GoDiv(c.ForcedDuration, frameCount)
                ELSE byDelay
    IN  GoMax(t, FrameTimeFloor)

\* line 130; dt is the tick delta after its conversion to int64
ElapsedTime(c, clock, dt) == (clock - c.AnimationStartedAt) - dt

\* lines 131-143, at a given elapsed time
FrameIndexAt(c, action, elapsed) ==
    LET frameCount == Len(action.Frames)
        realIndex == GoDiv(elapsed, TimeNeededForOneFrame(c, action))
        byMode == IF c.PlayMode = Repeat THEN GoMod(realIndex, frameCount) ELSE 0
    IN  IF frameCount = 3 THEN 0 ELSE byMode

FrameIndex(c, action, clock, dt) ==
    FrameIndexAt(c, action, ElapsedTime(c, clock, dt))

\* faulty variant: the frame Delay recorded instead
DelayOfFrameDelay(action) == action.Delay * NanosPerMilli

\* line 177
DelayOf(action) == action.DurationMilliseconds * NanosPerMilli

-----------------------------------------------------------------------------
(* renderLayer and renderSpriteCommand.  A render state rs threads what a   *)
(* tick mutates: the command sequence, the offset accumulator of the        *)
(* character being drawn, its AnimationDelay, and the process status.       *)
(* A command keeps the entity and the attachment it was emitted for, the    *)
(* raw layer position, and Offset as a multiple of graphic.OnePixelSize.    *)
(* Scale, Size, the world position and the rotation of a command are float  *)
(* values no rule of the draw order or of the chaining reads; they are left *)
(* out.                                                                     *)

Add2(p, q) == << p[1] + q[1], p[2] + q[2] >>
Sub2(p, q) == << p[1] - q[1], p[2] - q[2] >>

Scale2(p, k) == << p[1] * k, p[2] * k >>

\* lines 202-205, in units of graphic.OnePixelSize
LayerOffset(layer, offset) == Scale2(Add2(layer.Position, offset), SpriteScaleFactor)

RenderLayer(rs, id, elem, layer, offset, textureOK) ==
    IF rs.status # "running" \/ layer.SpriteFrameIndex < 0 THEN rs
    ELSE IF ~textureOK THEN [rs EXCEPT !.status = "fatal: texture"]
    ELSE [rs EXCEPT !.sprite = Append(@,
            [ Entity        |-> id,
              Attachment    |-> elem,
              Texture       |-> layer.SpriteFrameIndex,
              LayerPosition |-> layer.Position,
              Offset        |-> LayerOffset(layer, offset),
              Fresh         |-> TRUE ])]

RECURSIVE RenderLayers(_, _, _, _, _, _, _)
RenderLayers(rs, id, elem, layers, i, offset, textureOK) ==
    IF i > Len(layers) THEN rs
    ELSE RenderLayers(RenderLayer(rs, id, elem, layers[i], offset, textureOK),
                      id, elem, layers, i + 1, offset, textureOK)

\* faulty variant: the accumulated offset applied to a frame without Positions too
LayerShiftChained(frame, elem, offset) ==
    IF elem = AttachmentBody \/ elem = AttachmentShield THEN << 0, 0 >>
    ELSE IF Len(frame.Positions) > 0 THEN Sub2(offset, frame.Positions[1])
    ELSE offset

\* lines 151-158
LayerShift(frame, elem, offset) ==
    IF /\ Len(frame.Positions) > 0
       /\ elem # AttachmentBody
       /\ elem # AttachmentShield
    THEN Sub2(offset, frame.Positions[1])
    ELSE << 0, 0 >>

\* lines 169-175
SavedOffset(frame, offset) ==
    IF Len(frame.Positions) > 0 THEN frame.Positions[1] ELSE offset

RenderAttachment(rs, id, c, elem, clock, dt, textureOK) ==
    IF rs.status # "running" \/ Len(Actions(c, elem)) = 0 THEN rs
    ELSE IF ~IndexInRange(ActionIdx(c, Len(Actions(c, elem))), Len(Actions(c, elem)))
    THEN [rs EXCEPT !.status = "panic"]
    ELSE
    LET action == SelectedAction(c, elem)
        frameCount == Len(action.Frames)
        frameIndex == FrameIndex(c, action, clock, dt)
    IN  IF frameCount = 0 \/ ~IndexInRange(frameIndex, frameCount)
        THEN [rs EXCEPT !.status = "panic"]
        ELSE
        LET frame == action.Frames[frameIndex + 1]
        IN  IF Len(frame.Layers) = 0
            THEN [rs EXCEPT !.offset = << 0, 0 >>]
            ELSE
            LET drawn == RenderLayers(rs, id, elem, frame.Layers, 1,
                                      LayerShift(frame, elem, rs.offset), textureOK)
            IN  IF drawn.status # "running" THEN drawn
                ELSE [drawn EXCEPT !.offset = SavedOffset(frame, rs.offset),
                                   !.delay = DelayOf(action)]

RECURSIVE RenderAttachments(_, _, _, _, _, _, _, _)
RenderAttachments(rs, id, c, order, i, clock, dt, textureOK) ==
    IF i > Len(order) THEN rs
    ELSE RenderAttachments(
            RenderAttachment(rs, id, c, order[i], clock, dt, textureOK),
            id, c, order, i + 1, clock, dt, textureOK)

\* lines 85-106
RenderCharacter(rs, id, c, clock, dt, textureOK) ==
    RenderAttachments([rs EXCEPT !.offset = << 0, 0 >>, !.delay = c.AnimationDelay],
                      id, c, DrawOrder(c), 1, clock, dt, textureOK)

-----------------------------------------------------------------------------
(* Update                                                                   *)

\* faulty variant: the previous tick's commands kept
KeepCommands(cmds) == cmds

\* line 53
ClearCommands(cmds) == << >>

\* history: whatever an Update keeps of the previous tick is no longer fresh
Stale(cmds) == [i \in DOMAIN cmds |-> [cmds[i] EXCEPT !.Fresh = FALSE]]

\* lines 55-57; Go ranges over the map in an unspecified order
Orders(ids) ==
    { o \in [1 .. Cardinality(ids) -> ids] :
        \A i, j \in 1 .. Cardinality(ids) : i # j => o[i] # o[j] }

RECURSIVE RenderAll(_, _, _, _, _, _)
RenderAll(rs, order, i, clock, dt, textureOK) ==
    IF i > Len(order) THEN rs
    ELSE LET id == order[i]
             r == RenderCharacter(rs, id, rs.chars[id], clock, dt, textureOK)
         IN  RenderAll([r EXCEPT !.chars[id].AnimationDelay = r.delay],
                       order, i + 1, clock, dt, textureOK)

Rendered(dt, textureOK, order) ==
    RenderAll([ sprite |-> Stale(ClearCommands(sprite)),
                status |-> "running",
                offset |-> << 0, 0 >>,
                delay  |-> 0,
                chars  |-> characters ],
              order, 1, now, dt, textureOK)

\* dt is int64(dt) of line 130; textureOK tells whether the texture provider
\* serves this tick (line 191); order is the order the map is ranged in
Update(dt, textureOK, order) ==
    /\ status = "running"
    /\ LET r == Rendered(dt, textureOK, order)
       IN  /\ sprite' = r.sprite
           /\ characters' = r.chars
           /\ status' = r.status
    /\ rendered' = DOMAIN characters
    /\ lastOp' = [op |-> "Update", dt |-> dt, ok |-> textureOK]
    /\ UNCHANGED <<directionTable, now, departed>>

-----------------------------------------------------------------------------
(* Add / Remove                                                             *)

Registered(chars, id, c) ==
    [i \in DOMAIN chars \cup {id} |-> IF i = id THEN c ELSE chars[i]]

\* faulty variant: the map written before the error is looked at
AddThenCheck(id, c) ==
    /\ status = "running"
    /\ characters' = Registered(characters, id, c)
    /\ departed' = departed \ {id}
    /\ status' = IF AssetFound(c) THEN "running" ELSE "fatal: asset not found"
    /\ lastOp' = [op |-> "Add", dt |-> 0, ok |-> AssetFound(c)]
    /\ UNCHANGED <<directionTable, now, sprite, rendered>>

\* lines 65-79: log.Fatal ends the process before the map is written
Add(id, c) ==
    /\ status = "running"
    /\ IF AssetFound(c)
          THEN /\ characters' = Registered(characters, id, c)
               /\ departed' = departed \ {id}
               /\ status' = "running"
          ELSE /\ characters' = characters
               /\ departed' = departed
               /\ status' = "fatal: asset not found"
    /\ lastOp' = [op |-> "Add", dt |-> 0, ok |-> AssetFound(c)]
    /\ UNCHANGED <<directionTable, now, sprite, rendered>>

\* lines 81-83
Removed(chars, id) == [i \in DOMAIN chars \ {id} |-> chars[i]]

Remove(id) ==
    /\ status = "running"
    /\ characters' = Removed(characters, id)
    /\ departed' = departed \cup (DOMAIN characters \cap {id})
    /\ lastOp' = [op |-> "Remove", dt |-> 0, ok |-> TRUE]
    /\ UNCHANGED <<directionTable, now, sprite, status, rendered>>

-----------------------------------------------------------------------------
(* Environment: the wall clock, and the characters handed to the system     *)

Tick ==
    /\ status = "running"
    /\ now < MaxClockSteps * ClockStep
    /\ now' = now + ClockStep
    /\ lastOp' = [op |-> "Tick", dt |-> 0, ok |-> TRUE]
    /\ UNCHANGED <<directionTable, characters, sprite, status, rendered, departed>>

Equipment(job, head, hasShield, shield, fps, forced) ==
    [ Gender |-> "Female", JobSpriteID |-> job, HeadIndex |-> head,
      HasShield |-> hasShield, ShieldSpriteName |-> shield,
      FPSMultiplier |-> fps, ForcedDuration |-> forced ]

BoundEquipments ==
    { Equipment("novice", "head1", TRUE, "guard", <<1, 1>>, 0),
      Equipment("novice", "head1", FALSE, "", <<2, 1>>, 0),
      Equipment("novice", "head1", TRUE, "buckler", <<1, 2>>, 0),
      Equipment("novice", "head1", TRUE, "guard", <<1, 1>>, 150),
      Equipment("novice", "head1", FALSE, "", <<1, 1>>, 600) }

UnboundEquipments ==
    { Equipment("unknown", "head1", FALSE, "", <<1, 1>>, 0),
      Equipment("novice", "head9", FALSE, "", <<1, 1>>, 0),
      Equipment("novice", "head1", TRUE, "missing", <<1, 1>>, 0) }

Posed(e, direction, actionIndex, playMode, startedAt) ==
    [ Gender |-> e.Gender, JobSpriteID |-> e.JobSpriteID, HeadIndex |-> e.HeadIndex,
      HasShield |-> e.HasShield, ShieldSpriteName |-> e.ShieldSpriteName,
      FPSMultiplier |-> e.FPSMultiplier, ForcedDuration |-> e.ForcedDuration,
      Direction |-> direction, ActionIndex |-> actionIndex, PlayMode |-> playMode,
      AnimationStartedAt |-> startedAt, AnimationDelay |-> 0 ]

\* direction tables; only the entry of the fixed camera is read
Tables(entries) ==
    { [i \in 1 .. 8 |-> IF i = FixedCameraDirection + 1 THEN e ELSE 0] : e \in entries }

ClockValues == { k * ClockStep : k \in 0 .. MaxClockSteps }

\* Render pass alone: one registered character in any input state, under
\* any direction-table entry and clock, rendered by Update.

\* every character state the render pass can be handed
AnyCharacters ==
    { Posed(e, d, a, m, t) :
        e \in BoundEquipments, d \in Directions, a \in ActionKinds,
        m \in PlayModes, t \in {0} }

InitRender ==
    /\ directionTable \in Tables(Directions)
    /\ now \in ClockValues
    /\ \E c \in AnyCharacters : characters = (1 :> c)
    /\ sprite = << >>
    /\ status = "running"
    /\ rendered = {}
    /\ departed = {}
    /\ lastOp = [op |-> "Init", dt |-> 0, ok |-> TRUE]

NextRender ==
    \E dt \in DeltaTimes, textureOK \in BOOLEAN, order \in Orders(DOMAIN characters) :
        Update(dt, textureOK, order)

SpecRender == InitRender /\ [][NextRender]_vars

\* the characters the bounded system is handed at registration
Arrivals(clock) ==
    { Posed(Equipment("novice", "head1", TRUE, "guard", <<1, 1>>, 0),
            3, StandBy, Repeat, clock),
      Posed(Equipment("novice", "head1", TRUE, "guard", <<1, 1>>, 150),
            1, Dead, PlayOnce, clock) }
    \cup { Posed(e, 0, Idle, Repeat, clock) : e \in UnboundEquipments }

\* NewCharacterRenderSystem, lines 41-50
Init ==
    /\ directionTable \in Tables(CameraEntries)
    /\ now = 0
    /\ characters = << >>
    /\ sprite = << >>
    /\ status = "running"
    /\ rendered = {}
    /\ departed = {}
    /\ lastOp = [op |-> "Init", dt |-> 0, ok |-> TRUE]

Next ==
    \/ \E id \in EntityIds, c \in Arrivals(now) : Add(id, c)
    \/ \E id \in EntityIds : Remove(id)
    \/ \E dt \in DeltaTimes, textureOK \in BOOLEAN, order \in Orders(DOMAIN characters) :
          Update(dt, textureOK, order)
    \/ Tick

Spec == Init /\ [][Next]_vars

-----------------------------------------------------------------------------
(* Reading a tick back from the state it leaves.  Update writes only the    *)
(* command sequence and AnimationDelay, so right after an Update the        *)
(* characters, the clock and lastOp.dt are the inputs that Update read.     *)

AfterUpdate == lastOp.op = "Update" /\ status = "running"

Attachments ==
    { AttachmentShadow, AttachmentShield, AttachmentBody, AttachmentHead }

HasActions(c, elem) == Len(Actions(c, elem)) > 0

SelectedFrameIndex(c, elem) ==
    FrameIndex(c, SelectedAction(c, elem), now, lastOp.dt)

SelectedFrame(c, elem) ==
    SelectedAction(c, elem).Frames[SelectedFrameIndex(c, elem) + 1]

InDrawOrder(c, elem) == \E i \in DOMAIN DrawOrder(c) : DrawOrder(c)[i] = elem

\* the attachment reached the frame read of line 146
FrameSelected(c, elem) == InDrawOrder(c, elem) /\ HasActions(c, elem)

Drawable(frame) ==
    \E i \in DOMAIN frame.Layers : frame.Layers[i].SpriteFrameIndex >= 0

IsCommandOf(id, elem, cmd) == cmd.Entity = id /\ cmd.Attachment = elem

RECURSIVE Runs(_)
Runs(s) ==
    IF Len(s) <= 1 THEN s
    ELSE IF s[1] = s[2] THEN Runs(Tail(s))
    ELSE << s[1] >> \o Runs(Tail(s))

RECURSIVE AttachmentsFrom(_, _)
AttachmentsFrom(id, i) ==
    IF i > Len(sprite) THEN << >>
    ELSE (IF sprite[i].Entity = id THEN << sprite[i].Attachment >> ELSE << >>)
         \o AttachmentsFrom(id, i + 1)

\* the attachments of an entity's commands, in emission order
AttachmentOrder(id) == Runs(AttachmentsFrom(id, 1))

-----------------------------------------------------------------------------
(* C1 *)

AllDrawable(c) ==
    \A elem \in Attachments :
        /\ HasActions(c, elem)
        /\ Drawable(SelectedFrame(c, elem))

C1_Case(id) ==
    /\ AfterUpdate
    /\ DOMAIN characters = {id}
    /\ characters[id].HasShield
    /\ characters[id].ActionIndex = StandBy
    /\ AllDrawable(characters[id])

\* C1: one registered entity with a shield and action kind StandBy, every
\* attachment drawing at least one layer: the commands of a tick come in the
\* order Shadow, Shield, Body, Head when the behind flag is set and in the
\* order Shadow, Body, Head, Shield when it is not.
C1_DrawOrder ==
    \A id \in DOMAIN characters :
        C1_Case(id) =>
            AttachmentOrder(id) =
                IF Behind(characters[id])
                THEN << AttachmentShadow, AttachmentShield, AttachmentBody, AttachmentHead >>
                ELSE << AttachmentShadow, AttachmentBody, AttachmentHead, AttachmentShield >>

C1_Witness ==
    \E id \in DOMAIN characters :
        /\ C1_Case(id)
        /\ Behind(characters[id])
        /\ Len(sprite) >= 4

-----------------------------------------------------------------------------
(* C2 *)

\* the Shield draw was placed before Body and Head
ShieldPlacedFirst(id) ==
    \E i \in DOMAIN AttachmentOrder(id) :
        /\ AttachmentOrder(id)[i] = AttachmentShield
        /\ \A j \in DOMAIN AttachmentOrder(id) :
              AttachmentOrder(id)[j] \in {AttachmentBody, AttachmentHead} => i < j

C2_Case(id) ==
    /\ AfterUpdate
    /\ RenderShield(characters[id])
    /\ HasActions(characters[id], AttachmentShield)
    /\ Drawable(SelectedFrame(characters[id], AttachmentShield))

\* C2 as stated: the Shield is placed by a behind flag that is true iff
\* d = (facing + table entry) mod 8 satisfies 1 < d < 5.
C2_Original ==
    \A id \in DOMAIN characters :
        C2_Case(id) =>
            LET d == (characters[id].Direction + camera) % 8
            IN  ShieldPlacedFirst(id) <=> (1 < d /\ d < 5)

\* C2 amended: the Shield is placed by a behind flag that is true iff the
\* sum s = facing + (table entry mod 8), not reduced mod 8, satisfies
\* 1 < s < 6.
C2_BehindRange ==
    \A id \in DOMAIN characters :
        C2_Case(id) =>
            LET t == camera % 8
                u == characters[id].Direction + t
            IN  ShieldPlacedFirst(id) <=> (1 < u /\ u < 6)

C2_Witness ==
    \E id \in DOMAIN characters :
        /\ C2_Case(id)
        /\ ShieldPlacedFirst(id)
        /\ characters[id].Direction + camera = 5

-----------------------------------------------------------------------------
(* C3 *)

C3_BodyAnchored(c) ==
    /\ Len(SelectedFrame(c, AttachmentBody).Layers) > 0
    /\ Len(SelectedFrame(c, AttachmentBody).Positions) > 0
    /\ SelectedFrame(c, AttachmentBody).Positions[1] = << 10, 5 >>

C3_HeadCommands(id) ==
    { i \in DOMAIN sprite : IsCommandOf(id, AttachmentHead, sprite[i]) }

\* C3 as stated: Body drawn from a frame anchored at (10, 5), Head drawn from
\* a frame without Positions: every Head command is shifted by (10, 5) from
\* its raw layer position.
C3_Original ==
    \A id \in DOMAIN characters :
        ( /\ AfterUpdate
          /\ C3_BodyAnchored(characters[id])
          /\ Len(SelectedFrame(characters[id], AttachmentHead).Positions) = 0 )
        => \A i \in C3_HeadCommands(id) :
              sprite[i].Offset =
                  Scale2(Add2(sprite[i].LayerPosition, << 10, 5 >>), SpriteScaleFactor)

\* C3 amended: with the Body drawn from a frame anchored at (10, 5), a Head
\* frame without Positions is emitted unshifted, at its raw layer positions;
\* a Head frame with anchor Positions[0] = p is shifted by (10, 5) - p.
C3_HeadShift ==
    \A id \in DOMAIN characters :
        (AfterUpdate /\ C3_BodyAnchored(characters[id]))
        => LET head == SelectedFrame(characters[id], AttachmentHead)
               shift == IF Len(head.Positions) = 0 THEN << 0, 0 >>
                        ELSE << 10 - head.Positions[1][1], 5 - head.Positions[1][2] >>
           IN  \A i \in C3_HeadCommands(id) :
                  /\ sprite[i].Offset[1] =
                        (sprite[i].LayerPosition[1] + shift[1]) * SpriteScaleFactor
                  /\ sprite[i].Offset[2] =
                        (sprite[i].LayerPosition[2] + shift[2]) * SpriteScaleFactor

C3_Witness ==
    \E id \in DOMAIN characters :
        /\ AfterUpdate
        /\ C3_BodyAnchored(characters[id])
        /\ Len(SelectedFrame(characters[id], AttachmentHead).Positions) = 0
        /\ C3_HeadCommands(id) # {}
        /\ \E i \in DOMAIN sprite : IsCommandOf(id, AttachmentBody, sprite[i])

-----------------------------------------------------------------------------
(* C4 *)

\* C4 as stated: play mode Repeat, an action of N frames (N >= 1, N # 3) and
\* per-frame duration D: the frame index selected at the elapsed time t of a
\* tick equals the frame index selected at t + N * D.
C4_Original ==
    \A id \in DOMAIN characters : \A elem \in Attachments :
        LET c == characters[id]
        IN  ( /\ AfterUpdate
              /\ FrameSelected(c, elem)
              /\ c.PlayMode = Repeat
              /\ Len(SelectedAction(c, elem).Frames) >= 1
              /\ Len(SelectedAction(c, elem).Frames) # 3 )
            => LET action == SelectedAction(c, elem)
                   t == ElapsedTime(c, now, lastOp.dt)
                   period == Len(action.Frames) * TimeNeededForOneFrame(c, action)
               IN  FrameIndexAt(c, action, t) = FrameIndexAt(c, action, t + period)

-----------------------------------------------------------------------------
(* C5 *)

C5_Resolved(c) == c.ActionIndex + ((c.Direction + camera) % 8)

\* C5: for every action table of length L > 0, the index used to read it is
\* the resolved index (action kind + combined direction mod 8) modulo L, and
\* lies in [0, L).
C5_ActionIndexWraps ==
    \A id \in DOMAIN characters : \A elem \in Attachments :
        LET c == characters[id]
            L == Len(Actions(c, elem))
        IN  L > 0 =>
              /\ ActionIdx(c, L) = C5_Resolved(c) % L
              /\ 0 <= ActionIdx(c, L)
              /\ ActionIdx(c, L) < L

C5_Witness ==
    \E id \in DOMAIN characters :
        /\ AfterUpdate
        /\ C5_Resolved(characters[id]) >= Len(Actions(characters[id], AttachmentBody))
        /\ \E i \in DOMAIN sprite : IsCommandOf(id, AttachmentBody, sprite[i])

-----------------------------------------------------------------------------
(* C6 *)

\* C6: an Add whose selector has no asset ends in the asset-not-found
\* outcome and leaves the tracked set as it was before the call.
C6_FailedAddKeepsRegistry ==
    [][ (lastOp'.op = "Add" /\ ~lastOp'.ok)
        => (status' = "fatal: asset not found" /\ characters' = characters) ]_vars

C6_Witness ==
    /\ lastOp.op = "Add"
    /\ ~lastOp.ok
    /\ status = "fatal: asset not found"
    /\ Cardinality(DOMAIN characters) = 1
    /\ sprite # << >>

-----------------------------------------------------------------------------
(* C7 *)

\* C7: the command sequence holds only commands emitted by the most recent
\* Update, for entities registered when that Update ran; right after an
\* Update no command belongs to an entity that is not registered.
C7_OnlyLastTick ==
    \A i \in DOMAIN sprite :
        /\ sprite[i].Fresh
        /\ sprite[i].Entity \in rendered
        /\ lastOp.op = "Update" =>
              (sprite[i].Entity \in DOMAIN characters /\ sprite[i].Entity \notin departed)

C7_Witness ==
    /\ lastOp.op = "Update"
    /\ departed # {}
    /\ sprite # << >>
    /\ \A i \in DOMAIN sprite : sprite[i].Entity \notin departed

-----------------------------------------------------------------------------
(* C8 *)

\* positions in the draw order whose attachment reached line 177
C8_Drawn(c) ==
    { i \in DOMAIN DrawOrder(c) :
        /\ HasActions(c, DrawOrder(c)[i])
        /\ Len(SelectedFrame(c, DrawOrder(c)[i]).Layers) > 0 }

C8_Selected(c) ==
    { i \in DOMAIN DrawOrder(c) : HasActions(c, DrawOrder(c)[i]) }

Last(S) == CHOOSE i \in S : \A j \in S : j <= i

\* C8 as stated: after a frame is selected for an attachment, the entity's
\* AnimationDelay is the per-frame duration of that selection (forced
\* Duration / frame count, or Delay / FPS multiplier, floored at 100), as a
\* duration.
C8_Original ==
    \A id \in DOMAIN characters :
        AfterUpdate =>
            LET c == characters[id]
                elem == DrawOrder(c)[Last(C8_Selected(c))]
            IN  c.AnimationDelay =
                    TimeNeededForOneFrame(c, SelectedAction(c, elem)) * NanosPerMilli

\* C8 amended: after a frame with at least one layer is drawn for an
\* attachment, the entity's AnimationDelay is the selected action's
\* DurationMilliseconds as a duration (milliseconds to nanoseconds); a
\* selected frame without layers leaves AnimationDelay as it was.
C8_DelayIsActionDuration ==
    \A id \in DOMAIN characters :
        (AfterUpdate /\ C8_Drawn(characters[id]) # {}) =>
            LET c == characters[id]
                elem == DrawOrder(c)[Last(C8_Drawn(c))]
            IN  c.AnimationDelay =
                    SelectedAction(c, elem).DurationMilliseconds * 1000000

C8_Witness ==
    \E id \in DOMAIN characters :
        LET c == characters[id]
        IN  /\ AfterUpdate
            /\ C8_Drawn(c) # {}
            /\ Last(C8_Drawn(c)) < Last(C8_Selected(c))
            /\ c.AnimationDelay # 0
            /\ c.AnimationDelay #
                 TimeNeededForOneFrame(c,
                     SelectedAction(c, DrawOrder(c)[Last(C8_Drawn(c))])) * NanosPerMilli

-----------------------------------------------------------------------------
(* C9 *)

\* C9: the per-frame duration is never below 100, whatever the Delay, the
\* FPS multiplier, the forced Duration and the frame count.
C9_Floor ==
    \A id \in DOMAIN characters : \A elem \in Attachments :
        \A k \in DOMAIN Actions(characters[id], elem) :
            TimeNeededForOneFrame(characters[id], Actions(characters[id], elem)[k]) >= 100

C9_Witness ==
    \E id \in DOMAIN characters :
        LET c == characters[id]
            action == SelectedAction(c, AttachmentBody)
        IN  /\ AfterUpdate
            /\ c.ForcedDuration > 0
            /\ c.ForcedDuration < 100 * Len(action.Frames)
            /\ TimeNeededForOneFrame(c, action) = 100
            /\ \E i \in DOMAIN sprite : IsCommandOf(id, AttachmentBody, sprite[i])

-----------------------------------------------------------------------------
(* C10 *)

\* C10 as stated: in every tick, for every play mode and every elapsed time
\* (negative ones included), the frame index used to read the selected
\* action's frames lies in [0, frame count).
C10_Original ==
    \A id \in DOMAIN characters : \A elem \in Attachments :
        LET c == characters[id]
        IN  (lastOp.op = "Update" /\ FrameSelected(c, elem))
            => /\ status # "panic"
               /\ 0 <= SelectedFrameIndex(c, elem)
               /\ SelectedFrameIndex(c, elem) < Len(SelectedAction(c, elem).Frames)

====
